---- MODULE Spec2Model ----
(***************************************************************************)
(* Model of src/main.py: the benchmark script that queries the             *)
(* user_account table twice (plain dataclass rows serialised with orjson,  *)
(* pydantic dataclass rows serialised with RootModel.model_dump_json),     *)
(* times the two serialisation calls and prints their ratio.               *)
(*                                                                         *)
(* One state variable per piece of program state: the position of the      *)
(* async_main coroutine (pc), the database (store), the engine and its     *)
(* pool, the locals of the running function, and standard output.          *)
(* `log`, `nser`, `caught`, `rerun`, `store0` (the store as the process    *)
(* found it) and `injected` (the fault the environment raised in the last  *)
(* step that talks to the database or encodes) are history variables.      *)
(***************************************************************************)
EXTENDS Integers, Sequences, FiniteSets, TLC

VARIABLES pc, store, pendingDDL, engine, disposed, checkedOut, sess, timer,
          res, ret, e_time, t1, t2, x, exc, caught, stdout, log, nser, rerun,
          maxTick, store0, injected

vars == <<pc, store, pendingDDL, engine, disposed, checkedOut, sess, timer,
          res, ret, e_time, t1, t2, x, exc, caught, stdout, log, nser, rerun,
          maxTick, store0, injected>>

-----------------------------------------------------------------------------
(* Bounds of the model. *)

\* Largest number of rows of an enumerated table.
MaxRows == 2
\* Largest elapsed time, in clock ticks, of a timed step.
MaxDur == 2
\* Largest elapsed time in the specification that explores the ratio.
MaxDurRatio == 8

(* Program constants. *)

\* select(...).limit(1000)
Limit == 1000
\* range(10000) in load_objects
SeedCount == 10000

Min(a, b) == IF a <= b THEN a ELSE b
Abs(a) == IF a < 0 THEN 0 - a ELSE a

-----------------------------------------------------------------------------
(* Data model: the user_account table.  Text is a sequence of one-character *)
(* strings, so that JSON escaping is something the encoders really do.      *)

None == [some |-> FALSE, v |-> <<>>]
Some(s) == [some |-> TRUE, v |-> s]

\* name: Mapped[str], String(30)
Names == { <<"a">>, <<"\"", "\\">> }
\* phone_no: Mapped[Optional[str]], String(100)
Phones == { None, Some(<<>>), Some(<<"7">>) }

\* class User / class User_Pydantic: one row of user_account.
User(i, n, p) == [id |-> i, name |-> n, phone_no |-> p]

\* Row i of a generated table: the fields follow from the row number.
PatternRow(i) ==
    User(i,
         IF i % 2 = 0 THEN <<"a">> ELSE <<"\"", "\\">>,
         IF i % 3 = 0 THEN None ELSE IF i % 3 = 1 THEN Some(<<"7">>) ELSE Some(<<>>))

PatternTable(n) == [i \in 1..n |-> PatternRow(i)]

\* Every table of n rows; ids are the storage-generated primary keys 1..n.
TablesOfLen(n) ==
    { [i \in 1..n |-> User(i, f[i][1], f[i][2])] : f \in [1..n -> Names \X Phones] }

NoTable == [exists |-> FALSE, rows |-> <<>>]
Table(rows) == [exists |-> TRUE, rows |-> rows]

-----------------------------------------------------------------------------
(* Exceptions.  `except Exception` catches the subclasses of Exception;     *)
(* asyncio.CancelledError and KeyboardInterrupt derive from BaseException   *)
(* only.                                                                    *)

ExceptionSubclasses ==
    {"OperationalError", "ProgrammingError", "JSONEncodeError",
     "ValidationError", "ZeroDivisionError"}
BaseExceptionOnly == {"CancelledError", "KeyboardInterrupt"}

IsException(e) == e \in ExceptionSubclasses

-----------------------------------------------------------------------------
(* JSON text, as the sequence of its tokens.  A string token carries the    *)
(* escaped characters that stand between its quotes; a number token its     *)
(* value.                                                                   *)

Tok(k) == [k |-> k, s |-> <<>>, n |-> 0]
NumTok(n) == [k |-> "num", s |-> <<>>, n |-> n]

RECURSIVE Escape(_)
\* The characters `"` and `\` are written with a backslash before them.
Escape(s) ==
    IF s = <<>> THEN <<>>
    ELSE (IF Head(s) \in {"\"", "\\"} THEN <<"\\", Head(s)>> ELSE <<Head(s)>>)
         \o Escape(Tail(s))

StrTok(s) == [k |-> "str", s |-> Escape(s), n |-> 0]

\* None is written as the literal null, a str as a JSON string.
OptTok(p) == IF p.some THEN StrTok(p.v) ELSE Tok("null")

KeyId == <<"i", "d">>
KeyName == <<"n", "a", "m", "e">>
KeyPhone == <<"p", "h", "o", "n", "e", "_", "n", "o">>

RECURSIVE Concat(_, _, _)
\* ss[lo] \o ... \o ss[hi]
Concat(ss, lo, hi) ==
    IF lo > hi THEN <<>>
    ELSE IF lo = hi THEN ss[lo]
    ELSE LET mid == (lo + hi) \div 2
         IN  Concat(ss, lo, mid) \o Concat(ss, mid + 1, hi)

\* A JSON array of the given encoded items: [item,item,...], no whitespace.
ArrayOf(items) ==
    <<Tok("[")>>
    \o Concat([i \in 1..Len(items) |->
                  IF i = 1 THEN items[i] ELSE <<Tok(",")>> \o items[i]],
              1, Len(items))
    \o <<Tok("]")>>

\* orjson writes a dataclass as an object of its fields in class order
\* (User: id, name, phone_no).
OrjsonObject(u) ==
    << Tok("{"), StrTok(KeyId), Tok(":"), NumTok(u.id), Tok(","),
       StrTok(KeyName), Tok(":"), StrTok(u.name), Tok(","),
       StrTok(KeyPhone), Tok(":"), OptTok(u.phone_no), Tok("}") >>

\* orjson.dumps(res.all())
orjson_dumps(users) == ArrayOf([i \in 1..Len(users) |-> OrjsonObject(users[i])])

\* The export with exclude_none: a None field is left out.
PydanticObjectExcludeNone(u) ==
    << Tok("{"), StrTok(KeyName), Tok(":"), StrTok(u.name), Tok(",") >>
    \o (IF u.phone_no.some
        THEN << StrTok(KeyPhone), Tok(":"), StrTok(u.phone_no.v), Tok(",") >>
        ELSE << >>)
    \o << StrTok(KeyId), Tok(":"), NumTok(u.id), Tok("}") >>

\* pydantic writes every field of the dataclass, None included, in class
\* order (User_Pydantic: name, phone_no, id).
PydanticObject(u) ==
    << Tok("{"), StrTok(KeyName), Tok(":"), StrTok(u.name), Tok(","),
       StrTok(KeyPhone), Tok(":"), OptTok(u.phone_no), Tok(","),
       StrTok(KeyId), Tok(":"), NumTok(u.id), Tok("}") >>

\* RootModel[List[User_Pydantic]](res.all()).model_dump_json()
model_dump_json(users) ==
    ArrayOf([i \in 1..Len(users) |-> PydanticObject(users[i])])

-----------------------------------------------------------------------------
(* Reading JSON text back: a recursive-descent parser for an array of flat  *)
(* objects.  Used to state what the two outputs decode to.                  *)

JNull == [t |-> "null", s |-> <<>>, n |-> 0]
JStr(s) == [t |-> "str", s |-> s, n |-> 0]
JNum(n) == [t |-> "num", s |-> <<>>, n |-> n]

RECURSIVE Unescape(_)
Unescape(s) ==
    IF s = <<>> THEN <<>>
    ELSE IF Head(s) = "\\" /\ Len(s) >= 2
         THEN <<s[2]>> \o Unescape(Tail(Tail(s)))
         ELSE <<Head(s)>> \o Unescape(Tail(s))

Kind(toks, i) == IF i >= 1 /\ i <= Len(toks) THEN toks[i].k ELSE "eof"

Bad == [ok |-> FALSE, v |-> <<>>, next |-> 0]

\* A scalar value at position i.
ParseScalar(toks, i) ==
    CASE Kind(toks, i) = "null" -> [ok |-> TRUE, v |-> JNull, next |-> i + 1]
      [] Kind(toks, i) = "num" -> [ok |-> TRUE, v |-> JNum(toks[i].n), next |-> i + 1]
      [] Kind(toks, i) = "str" ->
            [ok |-> TRUE, v |-> JStr(Unescape(toks[i].s)), next |-> i + 1]
      [] OTHER -> [ok |-> FALSE, v |-> JNull, next |-> 0]

RECURSIVE ParseMembers(_, _, _)
\* key:value(,key:value)*} from position i, after the members in acc.
ParseMembers(toks, i, acc) ==
    IF Kind(toks, i) = "str" /\ Kind(toks, i + 1) = ":"
    THEN LET val == ParseScalar(toks, i + 2)
             mem == [key |-> Unescape(toks[i].s), val |-> val.v]
         IN  IF ~val.ok THEN Bad
             ELSE IF Kind(toks, val.next) = ","
                  THEN ParseMembers(toks, val.next + 1, Append(acc, mem))
             ELSE IF Kind(toks, val.next) = "}"
                  THEN [ok |-> TRUE, v |-> Append(acc, mem), next |-> val.next + 1]
             ELSE Bad
    ELSE Bad

ParseObject(toks, i) ==
    IF Kind(toks, i) # "{" THEN Bad
    ELSE IF Kind(toks, i + 1) = "}" THEN [ok |-> TRUE, v |-> <<>>, next |-> i + 2]
    ELSE ParseMembers(toks, i + 1, <<>>)

RECURSIVE ParseElements(_, _, _)
ParseElements(toks, i, acc) ==
    LET obj == ParseObject(toks, i)
    IN  IF ~obj.ok THEN Bad
        ELSE IF Kind(toks, obj.next) = ","
             THEN ParseElements(toks, obj.next + 1, Append(acc, obj.v))
        ELSE IF Kind(toks, obj.next) = "]"
             THEN [ok |-> TRUE, v |-> Append(acc, obj.v), next |-> obj.next + 1]
        ELSE Bad

\* json.loads of a whole text: [ok, v], v the list of decoded objects.
Loads(toks) ==
    LET r == IF Kind(toks, 1) # "[" THEN Bad
             ELSE IF Kind(toks, 2) = "]" THEN [ok |-> TRUE, v |-> <<>>, next |-> 3]
             ELSE ParseElements(toks, 2, <<>>)
    IN  [ok |-> r.ok /\ r.next = Len(toks) + 1, v |-> r.v]

\* The members of a decoded object with the given key.
Members(obj, key) == { i \in 1..Len(obj) : obj[i].key = key }
HasKey(obj, key) == Members(obj, key) # {}
Get(obj, key) == obj[CHOOSE i \in Members(obj, key) : \A j \in Members(obj, key) : j <= i].val


-----------------------------------------------------------------------------
(* The store and the statements run against it.                             *)

\* create_all without the check for an existing table: CREATE TABLE is
\* issued always and fails on a table that exists.
create_all_NoCheckfirst(st, fault) ==
    IF fault # "none" THEN [ddl |-> FALSE, raised |-> fault]
    ELSE IF st.exists THEN [ddl |-> FALSE, raised |-> "ProgrammingError"]
    ELSE [ddl |-> TRUE, raised |-> "none"]

\* Base.metadata.create_all: CREATE TABLE only where the table is missing
\* (checkfirst).  Answers whether DDL was issued and what was raised; a
\* fault of the environment is raised as it is.
create_all(st, fault) ==
    IF fault # "none" THEN [ddl |-> FALSE, raised |-> fault]
    ELSE IF st.exists THEN [ddl |-> FALSE, raised |-> "none"]
    ELSE [ddl |-> TRUE, raised |-> "none"]

\* The rows in scan order when the scan starts at row `start`.
Scan(rows, start) ==
    [i \in 1..Len(rows) |-> rows[((start + i - 2) % Len(rows)) + 1]]

\* Where a sequential scan may start: no ORDER BY fixes the order.
ScanStarts(rows) == {1} \cup ({Len(rows)} \cap {n \in Nat : n >= 1})

\* stmt = select(User).limit(1000)
select_User(rows, start) ==
    SubSeq(Scan(rows, start), 1, Min(Len(rows), Limit))

\* The statement without its limit.
select_User_Pydantic_NoLimit(rows, start) == Scan(rows, start)

\* stmt = select(User_Pydantic).limit(1000)
select_User_Pydantic(rows, start) ==
    SubSeq(Scan(rows, start), 1, Min(Len(rows), Limit))

\* load_objects: 10000 new rows added in one transaction (the values stand
\* for fake.name() and fake.phone_number()).
load_objects(st) ==
    Table(st.rows \o [i \in 1..SeedCount |->
                         User(Len(st.rows) + i, <<"a">>, Some(<<"7">>))])

\* `except ProgrammingError`: a handler for one cause only.
CatchesProgrammingErrorOnly(e) == e = "ProgrammingError"

\* `except Exception` of the schema-setup step.
Catches(e) == IsException(e)

-----------------------------------------------------------------------------
(* Standard output: the lines of print(), and the statement log the engine  *)
(* writes there because it was created with echo=True.                      *)

Echo(text) == [src |-> "echo", text |-> text, val |-> 0]
Printed(text, val) == [src |-> "print", text |-> text, val |-> val]

\* The integer nearest to num/den, a tie going to the even one.
RoundHalfEven(num, den) ==
    LET q == num \div den
        r == num % den
    IN  IF 2 * r < den THEN q
        ELSE IF 2 * r > den THEN q + 1
        ELSE IF q % 2 = 0 THEN q ELSE q + 1

\* The quotient cut to two decimals instead of rounded.
Format2Truncating(q) == (100 * q.num) \div q.den

\* f"{x:0.2f}": the quotient in hundredths.  Durations are whole clock
\* ticks; for fewer than 40 ticks every quotient that lies half way between
\* two hundredths is an odd multiple of 1/8, which the float holds exactly,
\* and the correctly rounded conversion sends it to the even neighbour.
Format2(q) == RoundHalfEven(100 * q.num, q.den)

-----------------------------------------------------------------------------
(* The state machine.                                                       *)

NoRatio == [num |-> -1, den |-> 1]
NoCounts == [A |-> -1, B |-> -1]

\* Number of objects of a JSON text that is an array of flat objects.
NumObjects(toks) == Cardinality({ i \in 1..Len(toks) : toks[i].k = "{" })

\* The state of a fresh process over the given store.
Fresh(st, ticks, again) ==
    /\ pc = "create_engine"
    /\ store = st
    /\ pendingDDL = FALSE
    /\ engine = "none"
    /\ disposed = 0
    /\ checkedOut = 0
    /\ sess = "none"
    /\ timer = "idle"
    /\ res = <<>>
    /\ ret = <<>>
    /\ e_time = -1
    /\ t1 = -1
    /\ t2 = -1
    /\ x = NoRatio
    /\ exc = "none"
    /\ caught = "none"
    /\ stdout = <<>>
    /\ log = <<>>
    /\ nser = NoCounts
    /\ rerun = again
    /\ maxTick = ticks
    /\ store0 = st
    /\ injected = "none"

EnumeratedStores ==
    {NoTable} \cup UNION { {Table(r) : r \in TablesOfLen(n)} : n \in 0..MaxRows }

Init == \E st \in EnumeratedStores : Fresh(st, MaxDur, FALSE)

\* An exception nothing handles: it leaves async_main and asyncio.run.
Unhandled(e) ==
    /\ pc' = "failed"
    /\ exc' = e

Step(name) == log' = Append(log, name)

Say(lines) == stdout' = stdout \o lines

\* engine = create_async_engine(..., echo=True)
CreateEngine ==
    /\ pc = "create_engine"
    /\ engine' = "open"
    /\ pc' = "engine_begin"
    /\ Step("create_engine")
    /\ UNCHANGED <<store0, injected, store, pendingDDL, disposed, checkedOut,
                   sess, timer, res, ret, e_time, t1, t2, x, exc, caught,
                   stdout, nser, rerun, maxTick>>

\* async with engine.begin() as conn: a connection is checked out and a
\* transaction begun.
EngineBegin ==
    /\ pc = "engine_begin"
    /\ Step("engine_begin")
    /\ \E fault \in {"none", "OperationalError"} :
         /\ injected' = fault
         /\ IF fault = "none"
            THEN /\ checkedOut' = checkedOut + 1
                 /\ Say(<<Echo("BEGIN")>>)
                 /\ pc' = "create_all"
                 /\ UNCHANGED exc
            ELSE /\ Unhandled(fault)
                 /\ UNCHANGED <<checkedOut, stdout>>
    /\ UNCHANGED <<store0, store, pendingDDL, engine, disposed, sess, timer,
                   res, ret, e_time, t1, t2, x, caught, nser, rerun, maxTick>>

SetupFaults == {"OperationalError", "ProgrammingError", "CancelledError"}

\* try: await conn.run_sync(Base.metadata.create_all)
\* except Exception as e: pass
\* What is not caught leaves the `async with`, which rolls the transaction
\* back and returns the connection.
CreateAll ==
    /\ pc = "create_all"
    /\ Step("create_all")
    /\ \E fault \in {"none"} \cup SetupFaults :
         LET r == create_all(store, fault)
         IN  /\ injected' = fault
             /\ IF r.raised = "none"
                THEN /\ pc' = "engine_commit"
                     /\ pendingDDL' = r.ddl
                     /\ Say(IF r.ddl
                            THEN <<Echo("SELECT relname"), Echo("CREATE TABLE")>>
                            ELSE <<Echo("SELECT relname")>>)
                     /\ UNCHANGED <<exc, caught, checkedOut>>
                ELSE IF Catches(r.raised)
                THEN /\ caught' = r.raised
                     /\ pc' = "engine_commit"
                     /\ UNCHANGED <<exc, stdout, pendingDDL, checkedOut>>
                ELSE /\ Unhandled(r.raised)
                     /\ checkedOut' = checkedOut - 1
                     /\ Say(<<Echo("ROLLBACK")>>)
                     /\ UNCHANGED <<caught, pendingDDL>>
    /\ UNCHANGED <<store0, store, engine, disposed, sess, timer, res, ret,
                   e_time, t1, t2, x, nser, rerun, maxTick>>

\* Leaving `async with engine.begin()`: the transaction is committed and
\* the connection returned to the pool.
EngineCommit ==
    /\ pc = "engine_commit"
    /\ Step("engine_commit")
    /\ checkedOut' = checkedOut - 1
    /\ pendingDDL' = FALSE
    /\ \E fault \in {"none", "OperationalError"} :
         /\ injected' = fault
         /\ IF fault = "none"
            THEN /\ store' = (IF pendingDDL THEN Table(<<>>) ELSE store)
                 /\ Say(<<Echo("COMMIT")>>)
                 /\ pc' = "sessionmaker"
                 /\ UNCHANGED exc
            ELSE /\ Unhandled(fault)
                 /\ UNCHANGED <<store, stdout>>
    /\ UNCHANGED <<store0, engine, disposed, sess, timer, res, ret, e_time,
                   t1, t2, x, caught, nser, rerun, maxTick>>

\* The same step with the seeder call left in.
MakeSessionmakerAndSeed ==
    /\ pc = "sessionmaker"
    /\ Step("sessionmaker")
    /\ store.exists
    /\ store' = load_objects(store)
    /\ pc' = "A_scalars"
    /\ UNCHANGED <<store0, injected, pendingDDL, engine, disposed, checkedOut,
                   sess, timer, res, ret, e_time, t1, t2, x, exc, caught,
                   stdout, nser, rerun, maxTick>>

\* async_session = async_sessionmaker(engine, expire_on_commit=False)
\* # await load_objects(async_session)
MakeSessionmaker ==
    /\ pc = "sessionmaker"
    /\ Step("sessionmaker")
    /\ pc' = "A_scalars"
    /\ UNCHANGED <<store0, injected, store, pendingDDL, engine, disposed,
                   checkedOut, sess, timer, res, ret, e_time, t1, t2, x, exc,
                   caught, stdout, nser, rerun, maxTick>>

QueryFaults == {"OperationalError"}

\* async with async_session() as session: res = await session.scalars(stmt)
\* The session takes a connection and runs the statement, whose rows are
\* buffered in res; `results` are the row lists the statement may return.  A failure leaves the `async with`, which closes the
\* session, and is not handled.
Scalars(here, next, results) ==
    /\ pc = here
    /\ Step(here)
    /\ \E fault \in {"none"} \cup QueryFaults :
         LET raised == IF fault # "none" THEN fault
                       ELSE IF ~store.exists THEN "ProgrammingError"
                       ELSE "none"
         IN  /\ injected' = fault
             /\ IF raised = "none"
                THEN /\ res' \in results
                     /\ sess' = "open"
                     /\ checkedOut' = checkedOut + 1
                     /\ Say(<<Echo("BEGIN"), Echo("SELECT user_account")>>)
                     /\ pc' = next
                     /\ UNCHANGED exc
                ELSE /\ Unhandled(raised)
                     /\ sess' = "closed"
                     /\ Say(<<Echo("BEGIN"), Echo("SELECT user_account"),
                              Echo("ROLLBACK")>>)
                     /\ UNCHANGED <<res, checkedOut>>
    /\ UNCHANGED <<store0, store, pendingDDL, engine, disposed, timer, ret,
                   e_time, t1, t2, x, caught, nser, rerun, maxTick>>

\* Leaving `async with async_session()`: the session is closed and its
\* connection returned.
CloseSession(here, next) ==
    /\ pc = here
    /\ Step(here)
    /\ sess' = "closed"
    /\ checkedOut' = checkedOut - 1
    /\ Say(<<Echo("ROLLBACK")>>)
    /\ pc' = next
    /\ UNCHANGED <<store0, injected, store, pendingDDL, engine, disposed,
                   timer, res, ret, e_time, t1, t2, x, exc, caught, nser,
                   rerun, maxTick>>

\* t1 = time.perf_counter()
TimerStart(here, next) ==
    /\ pc = here
    /\ Step(here)
    /\ timer' = "running"
    /\ pc' = next
    /\ UNCHANGED <<store0, injected, store, pendingDDL, engine, disposed,
                   checkedOut, sess, res, ret, e_time, t1, t2, x, exc, caught,
                   stdout, nser, rerun, maxTick>>

\* ret = <encoder>(res.all()), `text` being what the encoder writes; a
\* failure of the encoder is not handled.
Serialize(here, next, path, text, fault) ==
    /\ pc = here
    /\ Step(here)
    /\ \E f \in {"none", fault} :
         /\ injected' = f
         /\ IF f = "none"
            THEN /\ ret' = text
                 /\ nser' = [nser EXCEPT ![path] = NumObjects(ret')]
                 /\ pc' = next
                 /\ UNCHANGED exc
            ELSE /\ Unhandled(f)
                 /\ UNCHANGED <<ret, nser>>
    /\ UNCHANGED <<store0, store, pendingDDL, engine, disposed, checkedOut,
                   sess, timer, res, e_time, t1, t2, x, caught, stdout, rerun,
                   maxTick>>

\* e_time = time.perf_counter() - t1
TimerStop(here, next) ==
    /\ pc = here
    /\ Step(here)
    /\ \E d \in 0..maxTick : e_time' = d
    /\ timer' = "stopped"
    /\ pc' = next
    /\ UNCHANGED <<store0, injected, store, pendingDDL, engine, disposed,
                   checkedOut, sess, res, ret, t1, t2, x, exc, caught, stdout,
                   nser, rerun, maxTick>>

\* print("e_time ...", e_time)
PrintTime(here, next, label) ==
    /\ pc = here
    /\ Step(here)
    /\ Say(<<Printed(label, e_time)>>)
    /\ pc' = next
    /\ UNCHANGED <<store0, injected, store, pendingDDL, engine, disposed,
                   checkedOut, sess, timer, res, ret, e_time, t1, t2, x, exc,
                   caught, nser, rerun, maxTick>>

\* The locals of a function that has returned.
LocalsGone ==
    /\ sess' = "none"
    /\ timer' = "idle"
    /\ res' = <<>>
    /\ ret' = <<>>
    /\ e_time' = -1

(* normal_dc_with_orjson *)

A_Scalars ==
    Scalars("A_scalars", "A_close",
            { select_User(store.rows, start) : start \in ScanStarts(store.rows) })
A_CloseSession == CloseSession("A_close", "A_timer")
\* The timer started before the `async with` block instead of after it.
A_TimerStartEarly == timer = "idle" /\ TimerStart("A_scalars", "A_scalars")

A_TimerStart == TimerStart("A_timer", "A_dumps")
A_Dumps ==
    Serialize("A_dumps", "A_stop", "A", orjson_dumps(res), "JSONEncodeError")
A_TimerStop == TimerStop("A_stop", "A_print")
A_Print == PrintTime("A_print", "A_return", "e_time normal dc")

\* The plain path returning straight to the ratio, the validated path
\* never run.
A_ReturnSkippingB ==
    /\ pc = "A_return"
    /\ Step("A_return")
    /\ t1' = e_time
    /\ t2' = e_time
    /\ LocalsGone
    /\ pc' = "ratio"
    /\ UNCHANGED <<store0, injected, store, pendingDDL, engine, disposed,
                   checkedOut, x, exc, caught, stdout, nser, rerun, maxTick>>

\* return e_time;  t1 = await normal_dc_with_orjson(async_session)
A_Return ==
    /\ pc = "A_return"
    /\ Step("A_return")
    /\ t1' = e_time
    /\ LocalsGone
    /\ pc' = "B_scalars"
    /\ UNCHANGED <<store0, injected, store, pendingDDL, engine, disposed,
                   checkedOut, t2, x, exc, caught, stdout, nser, rerun,
                   maxTick>>

(* pydantic_dc_v2 *)

B_Scalars ==
    Scalars("B_scalars", "B_close",
            { select_User_Pydantic(store.rows, start) :
                  start \in ScanStarts(store.rows) })
B_CloseSession == CloseSession("B_close", "B_timer")
B_TimerStart == TimerStart("B_timer", "B_dumps")
\* The encoder's failure caught and passed over, as the setup's is.
B_DumpsIgnoringErrors ==
    /\ pc = "B_dumps"
    /\ Step("B_dumps")
    /\ \E f \in {"none", "ValidationError"} :
         /\ injected' = f
         /\ ret' = (IF f = "none" THEN model_dump_json(res) ELSE <<>>)
         /\ nser' = [nser EXCEPT !.B = NumObjects(ret')]
    /\ pc' = "B_stop"
    /\ UNCHANGED <<store0, store, pendingDDL, engine, disposed, checkedOut,
                   sess, timer, res, e_time, t1, t2, x, exc, caught, stdout,
                   rerun, maxTick>>

B_Dumps ==
    Serialize("B_dumps", "B_stop", "B", model_dump_json(res), "ValidationError")
B_TimerStop == TimerStop("B_stop", "B_print")
B_Print == PrintTime("B_print", "B_return", "e_time pydantic dc")

\* return e_time;  t2 = await pydantic_dc_v2(async_session)
B_Return ==
    /\ pc = "B_return"
    /\ Step("B_return")
    /\ t2' = e_time
    /\ LocalsGone
    /\ pc' = "ratio"
    /\ UNCHANGED <<store0, injected, store, pendingDDL, engine, disposed,
                   checkedOut, t1, x, exc, caught, stdout, nser, rerun,
                   maxTick>>

\* x = t2 / t1: float division raises ZeroDivisionError for a zero divisor.
Ratio ==
    /\ pc = "ratio"
    /\ Step("ratio")
    /\ IF t1 = 0
       THEN /\ Unhandled("ZeroDivisionError")
            /\ UNCHANGED x
       ELSE /\ x' = [num |-> t2, den |-> t1]
            /\ pc' = "print_ratio"
            /\ UNCHANGED exc
    /\ UNCHANGED <<store0, injected, store, pendingDDL, engine, disposed,
                   checkedOut, sess, timer, res, ret, e_time, t1, t2, caught,
                   stdout, nser, rerun, maxTick>>

\* print(f"normal dc is {x:0.2f}x faster")
PrintRatio ==
    /\ pc = "print_ratio"
    /\ Step("print_ratio")
    /\ Say(<<Printed("normal dc is x faster", Format2(x))>>)
    /\ pc' = "dispose"
    /\ UNCHANGED <<store0, injected, store, pendingDDL, engine, disposed,
                   checkedOut, sess, timer, res, ret, e_time, t1, t2, x, exc,
                   caught, nser, rerun, maxTick>>

\* await engine.dispose(): the last statement of async_main.
Dispose ==
    /\ pc = "dispose"
    /\ Step("dispose")
    /\ engine' = "disposed"
    /\ disposed' = disposed + 1
    /\ pc' = "done"
    /\ UNCHANGED <<store0, injected, store, pendingDDL, checkedOut, sess,
                   timer, res, ret, e_time, t1, t2, x, exc, caught, stdout,
                   nser, rerun, maxTick>>

\* The script is run again: a new process over the store the last one left.
Restart ==
    /\ pc \in {"done", "failed"}
    /\ ~rerun
    /\ pc' = "create_engine"
    /\ engine' = "none"
    /\ disposed' = 0
    /\ checkedOut' = 0
    /\ LocalsGone
    /\ t1' = -1
    /\ t2' = -1
    /\ x' = NoRatio
    /\ exc' = "none"
    /\ caught' = "none"
    /\ stdout' = <<>>
    /\ log' = <<>>
    /\ nser' = NoCounts
    /\ rerun' = TRUE
    /\ store0' = store
    /\ injected' = "none"
    /\ UNCHANGED <<store, pendingDDL, maxTick>>

Next ==
    \/ CreateEngine \/ EngineBegin \/ CreateAll \/ EngineCommit
    \/ MakeSessionmaker
    \/ A_Scalars \/ A_CloseSession \/ A_TimerStart \/ A_Dumps
    \/ A_TimerStop \/ A_Print \/ A_Return
    \/ B_Scalars \/ B_CloseSession \/ B_TimerStart \/ B_Dumps
    \/ B_TimerStop \/ B_Print \/ B_Return
    \/ Ratio \/ PrintRatio \/ Dispose
    \/ Restart

Spec == Init /\ [][Next]_vars

\* The same program with a clock that reports longer times, over a few
\* stores: the ratio's cases.
InitRatio ==
    \E st \in {NoTable, Table(<<>>), Table(PatternTable(1))} :
        Fresh(st, MaxDurRatio, FALSE)

SpecRatio == InitRatio /\ [][Next]_vars

\* The same program over generated tables around the limit of the query.
BigSizes == {0, MaxRows, Limit - 1, Limit, Limit + MaxRows}

InitBig ==
    \E st \in {NoTable} \cup {Table(PatternTable(n)) : n \in BigSizes} :
        Fresh(st, MaxDur, FALSE)

SpecBig == InitBig /\ [][Next]_vars

-----------------------------------------------------------------------------
(* Properties.                                                              *)

Last(seq) == seq[Len(seq)]
Ran(seq) == { seq[i] : i \in 1..Len(seq) }
LastStep == IF log = <<>> THEN "none" ELSE Last(log)
Prints(out) == SelectSeq(out, LAMBDA l : l.src = "print")
Labels(out) == [i \in 1..Len(out) |-> out[i].text]
IsPrefix(a, b) == Len(a) <= Len(b) /\ \A i \in 1..Len(a) : a[i] = b[i]

RatioLabel == "normal dc is x faster"
ThreeLabels == <<"e_time normal dc", "e_time pydantic dc", RatioLabel>>
ASteps == {"A_scalars", "A_close", "A_timer", "A_dumps", "A_stop", "A_print",
           "A_return"}
BSteps == {"B_scalars", "B_close", "B_timer", "B_dumps", "B_stop", "B_print",
           "B_return"}
FullOrder ==
    <<"create_engine", "engine_begin", "create_all", "engine_commit",
      "sessionmaker",
      "A_scalars", "A_close", "A_timer", "A_dumps", "A_stop", "A_print",
      "A_return",
      "B_scalars", "B_close", "B_timer", "B_dumps", "B_stop", "B_print",
      "B_return",
      "ratio", "print_ratio", "dispose">>
\* Positions at which the local `ret` holds the JSON text.
RetLive == {"A_stop", "A_print", "A_return", "B_stop", "B_print", "B_return"}

\* C1: the engine is disposed exactly once by the end of every run, runs
\* that end in an unhandled exception included.
C1_DisposedOnEveryExit ==
    pc \in {"done", "failed"} => disposed = 1

RaisedInSetup ==
    caught # "none" \/ (LastStep = "create_all" /\ pc = "failed")

\* C3 as stated: whatever create_all raises is discarded and never ends the
\* run; control always goes on to benchmark A.
C3_AnySetupErrorDiscarded ==
    RaisedInSetup => (pc # "failed" \/ "A_scalars" \in Ran(log))

\* C3 amended: an exception of create_all that is an instance of Exception
\* is caught and discarded whatever its cause, and control goes on to the
\* end of the engine.begin() block and, unless the commit there fails, to
\* benchmark A; an exception that derives from BaseException only
\* (CancelledError, KeyboardInterrupt) is not caught and ends the run.
C3_ExceptionDiscarded ==
    /\ (LastStep = "create_all" /\ injected \in ExceptionSubclasses) =>
            /\ pc = "engine_commit"
            /\ caught = injected
            /\ exc = "none"
    /\ (LastStep = "create_all" /\ pc = "failed") =>
            /\ exc \in BaseExceptionOnly
            /\ caught = "none"
    /\ (caught # "none" /\ pc = "failed" /\ "A_scalars" \notin Ran(log)) =>
            LastStep = "engine_commit"

\* A discarded setup error with benchmark A under way.
C3_Witness ==
    caught = "OperationalError" /\ pc = "A_close"

\* C4: an error of a benchmark path is not handled: it ends the run at the
\* step that raised it, so no later step runs and no ratio line is printed;
\* no step is tried twice.
C4_OtherErrorsUnhandled ==
    /\ exc # "none" <=> pc = "failed"
    /\ (injected # "none" /\ LastStep \in ASteps \cup BSteps) =>
            /\ pc = "failed"
            /\ exc = injected
    /\ (pc = "failed" /\ LastStep \in ASteps \cup BSteps) =>
            /\ RatioLabel \notin Ran(Labels(stdout))
            /\ x = NoRatio
            /\ disposed = 0
            /\ LastStep \in ASteps =>
                  /\ t1 = -1
                  /\ Ran(log) \cap BSteps = {}
    /\ \A i, j \in 1..Len(log) : log[i] = log[j] => i = j

\* The validated path's encoder has failed.
C4_Witness ==
    /\ pc = "failed"
    /\ exc = "ValidationError"
    /\ LastStep = "B_dumps"
    /\ t1 >= 0

\* C5: each path serialises min(N, 1000) records of a table of N rows, the
\* text [] for an empty table, and both paths the same number.
C5_RecordCount ==
    LET n == Min(Len(store.rows), Limit)
    IN  /\ pc \in RetLive =>
              /\ NumObjects(ret) = n
              /\ Len(res) = n
              /\ n = 0 => ret = <<Tok("["), Tok("]")>>
        /\ nser.A # -1 => nser.A = n
        /\ nser.B # -1 => nser.B = n

\* Both paths have serialised 1000 records of a larger table.
C5_Witness ==
    /\ Len(store.rows) > Limit
    /\ nser.A = Limit
    /\ nser.B = Limit

\* C6: the timer runs over the serialisation only: it is started after the
\* query has completed and the session is closed, no connection is held
\* while it runs, and it is stopped before the timing line is printed.
C6_TimedInterval ==
    /\ timer = "running" =>
            /\ sess = "closed"
            /\ checkedOut = 0
            /\ LastStep \in {"A_timer", "A_dumps", "B_timer", "B_dumps"}
    /\ pc \in {"A_return", "B_return"} => timer = "stopped"
    /\ \A i \in 1..Len(log) :
            /\ log[i] \in {"A_scalars", "A_close"} =>
                 \A j \in 1..i : log[j] # "A_timer"
            /\ log[i] \in {"B_scalars", "B_close"} =>
                 \A j \in 1..i : log[j] # "B_timer"
            /\ log[i] \in {"A_print", "B_print"} =>
                 (i > 1 /\ log[i - 1] \in {"A_stop", "B_stop"})

\* The validated path's timer running over its encoder.
C6_Witness ==
    timer = "running" /\ pc = "B_dumps" /\ Len(res) > 0

\* C7: a run leaves the stored rows as it found them.
C7_RowsUnchanged ==
    store.rows = store0.rows

\* A completed run over a table of two rows.
C7_Witness ==
    pc = "done" /\ Len(store.rows) = 2

\* C8: the schema setup run again, on a store that holds the table, issues
\* no DDL, raises nothing of its own (a fault of the environment aside) and
\* leaves the table and its rows as they were.
C8_SetupIdempotent ==
    /\ (store0.exists /\ "create_all" \in Ran(log)) =>
            /\ store = store0
            /\ ~pendingDDL
    /\ (store0.exists /\ LastStep = "create_all" /\ injected = "none") =>
            /\ caught = "none"
            /\ exc = "none"
            /\ pc = "engine_commit"

\* The second run's setup done over the table the first run created.
C8_Witness ==
    /\ rerun
    /\ store0 = Table(<<>>)
    /\ pc = "sessionmaker"
    /\ caught = "none"

Expected(row) ==
    [id |-> JNum(row.id), name |-> JStr(row.name),
     phone_no |-> IF row.phone_no.some THEN JStr(row.phone_no.v) ELSE JNull]

\* C9: each output, read back, is a list with one object per returned row
\* whose id, name and phone_no are those of the stored row; a null phone_no
\* is the key with an explicit null.
C9_RoundTrip ==
    pc \in RetLive =>
        LET back == Loads(ret)
        IN  /\ back.ok
            /\ Len(back.v) = Len(res)
            /\ \A i \in 1..Len(res) :
                 LET obj == back.v[i]
                 IN  /\ Len(obj) = 3
                     /\ HasKey(obj, KeyId)
                     /\ HasKey(obj, KeyName)
                     /\ HasKey(obj, KeyPhone)
                     /\ \E k \in 1..Len(store.rows) :
                          /\ store.rows[k] = res[i]
                          /\ Get(obj, KeyId) = Expected(store.rows[k]).id
                          /\ Get(obj, KeyName) = Expected(store.rows[k]).name
                          /\ Get(obj, KeyPhone) = Expected(store.rows[k]).phone_no

\* The validated path's output for rows with a null phone_no and a name
\* that needs escaping.
C9_Witness ==
    /\ pc = "B_stop"
    /\ \E i \in 1..Len(res) :
         res[i].phone_no = None /\ res[i].name = <<"\"", "\\">>

\* C10 as stated: a run that completes has taken its steps in the one order
\* and standard output holds exactly the three lines.
C10_ExactlyThreeLines ==
    pc = "done" =>
        /\ log = FullOrder
        /\ Labels(stdout) = ThreeLabels

\* C10 amended: the steps are taken in the one order, and the script's own
\* print calls write exactly three lines in that order (timing of the plain
\* path, timing of the validated path, ratio); standard output also holds
\* the statement log of the engine, created with echo=True.  The validated
\* path starts after the plain path has returned.
C10_StepsAndPrintsInOrder ==
    /\ IsPrefix(log, FullOrder)
    /\ IsPrefix(Labels(Prints(stdout)), ThreeLabels)
    /\ Ran(log) \cap BSteps # {} => "A_return" \in Ran(log)
    /\ pc = "done" =>
            /\ log = FullOrder
            /\ Labels(Prints(stdout)) = ThreeLabels
            /\ \E i \in 1..Len(stdout) : stdout[i].src = "echo"

\* A run that has completed without error.
C10_Witness ==
    pc = "done" /\ exc = "none" /\ Len(Prints(stdout)) = 3

====
